---- MODULE Spec2Model ----
(***************************************************************************)
(* Model of the HSR early-termination monitor: the watermark store         *)
(* (load_last_visit / save_last_visit), the alert pipeline                 *)
(* (check_and_send_hsr_alerts), the two dispatch channels, the Slack       *)
(* payload renderer and the one-shot orchestrator (monitor.py main).       *)
(*                                                                         *)
(* The `created` strings are modelled by their rank under string           *)
(* comparison: 1..MaxTs; None (absent, also the empty string) is 0.        *)
(* df is the `created` column of the fetched DataFrame; a row is named by  *)
(* its index label, which pandas keeps when a frame is filtered.           *)
(***************************************************************************)
EXTENDS Integers, Sequences, FiniteSets, TLC

\* ---- bounds ----
MaxTs == 2        \* distinct created timestamps upstream
MaxBatch == 2     \* rows in one fetched batch
MaxProcs == 2     \* invocations of monitor.py by the external scheduler
MaxNew == 50      \* new items handed to the Slack renderer on its own

\* ---- program constants ----
None == 0         \* Python None / "" : every falsy watermark or created value
max_items == 45   \* app.py:156

Created == 0..MaxTs
Batches == UNION {[1..n -> Created] : n \in 0..MaxBatch}

Max(a, b) == IF a >= b THEN a ELSE b

\* ---- pandas helpers used by check_and_send_hsr_alerts ----
\* df.empty
Empty(col) == Len(col) = 0
\* df["created"].isna().all()
IsNaAll(col) == \A i \in 1..Len(col) : col[i] = None
\* a column holding both strings and missing values
Mixed(col) == /\ \E i \in 1..Len(col) : col[i] = None
              /\ \E i \in 1..Len(col) : col[i] # None
\* Series.max() with skipna: the maximum over the values that are present
RECURSIVE MaxFrom(_, _)
MaxFrom(col, i) == IF i > Len(col) THEN None ELSE Max(col[i], MaxFrom(col, i + 1))
SeriesMax(col) == MaxFrom(col, 1)
\* df[df["created"] > w]: a missing value compares False; index labels are kept
RECURSIVE GreaterFrom(_, _, _)
GreaterFrom(col, w, i) ==
    IF i > Len(col) THEN <<>>
    ELSE (IF col[i] # None /\ col[i] > w THEN <<i>> ELSE <<>>) \o GreaterFrom(col, w, i + 1)
\* variant: the comparison is not strict, a tie with the watermark counts as new
RECURSIVE GreaterOrEqualFrom(_, _, _)
GreaterOrEqualFrom(col, w, i) ==
    IF i > Len(col) THEN <<>>
    ELSE (IF col[i] # None /\ col[i] >= w THEN <<i>> ELSE <<>>)
         \o GreaterOrEqualFrom(col, w, i + 1)
GreaterOrEqual(col, w) == GreaterOrEqualFrom(col, w, 1)
\* variant: a missing value compares True, so a row without created is selected
RECURSIVE GreaterOrMissingFrom(_, _, _)
GreaterOrMissingFrom(col, w, i) ==
    IF i > Len(col) THEN <<>>
    ELSE (IF col[i] = None \/ col[i] > w THEN <<i>> ELSE <<>>)
         \o GreaterOrMissingFrom(col, w, i + 1)
GreaterOrMissing(col, w) == GreaterOrMissingFrom(col, w, 1)
Greater(col, w) == GreaterFrom(col, w, 1)
\* df.copy(): every row
Copy(col) == [i \in 1..Len(col) |-> i]

\* ---- watermark store ----
\* The state file: absent, unparsable (or not a JSON object), or a JSON object
\* whose last_created is a string (None: key missing, null or "").
StateFiles == {[kind |-> "absent", last_created |-> None],
               [kind |-> "corrupt", last_created |-> None]}
              \cup {[kind |-> "json", last_created |-> c] : c \in Created}

load_last_visit(file) == IF file.kind = "json" THEN file.last_created ELSE None

\* outcome: "ok" the dump reached the file; "open_failed" open() raised and the
\* file is as before; "write_failed" open(.., "w") truncated the file and the
\* dump or the flush raised. Every exception is swallowed.
WriteOutcomes == {"ok", "open_failed", "write_failed"}
save_last_visit(file, last_created, outcome) ==
    IF last_created = None THEN file
    ELSE CASE outcome = "ok" -> [kind |-> "json", last_created |-> last_created]
           [] outcome = "open_failed" -> file
           [] outcome = "write_failed" -> [kind |-> "corrupt", last_created |-> None]

\* ---- Slack payload ----
\* One block: the header carries the count, an item section its row, the
\* closing context block the number of notices left out.
Block(type, n, row) == [type |-> type, n |-> n, row |-> row]
\* variant: the loop has no cap
Shown_uncapped(count_new) == count_new
Shown(count_new) == IF count_new < max_items THEN count_new ELSE max_items
render_slack_payload(items) ==
    LET count_new == Len(items)
        shown == Shown(count_new)
        fixed == <<Block("header", count_new, 0), Block("intro", 0, 0), Block("divider", 0, 0)>>
        sections == [i \in 1..shown |-> Block("section", 0, items[i])]
        more == IF count_new > shown THEN <<Block("context", count_new - shown, 0)>> ELSE <<>>
    IN [text |-> count_new, blocks |-> fixed \o sections \o more]
NoPayload == [text |-> 0, blocks |-> <<>>]

\* ---- change detection of check_and_send_hsr_alerts ----
\* df.empty or "created" not in df.columns: a frame built from no rows has no columns
NoRows(col) == Empty(col)
\* On an object-dtype column (pandas before 3.0) Series.max() fills the missing
\* values with -inf and compares it with the strings: TypeError. On a string-dtype
\* column (pandas 3.0 and later) the missing values are skipped.
MaxRaises(col, objdtype) == objdtype /\ Mixed(col)
\* latest_created = df["created"].max() if not df["created"].isna().all() else None
latest_of(col) == IF ~IsNaAll(col) THEN SeriesMax(col) ELSE None
\* variant: the comparison with the watermark is left out
select_new_all(col, w) == Copy(col)
\* new_items: rows newer than the last alert, or every row on the first run
select_new(col, w) == IF w # None THEN Greater(col, w) ELSE Copy(col)

\* ---- dispatch channels ----
\* send_hsr_email: no API key; no subscriber and no ALERT_EMAIL_TO; the provider
\* accepted the mail; send_transac_email raised (caught, st.error)
EmailOutcomes == {"no_key", "no_recipients", "sent", "failed"}
send_hsr_email_warns(outcome) == IF outcome = "failed" THEN 1 ELSE 0
\* send_slack_alert: no webhook URL; requests.post returned a success status;
\* requests.post raised (caught, st.error); requests.post returned an error
\* status, which nothing looks at
SlackOutcomes == {"no_webhook", "posted", "raised", "http_error"}
send_slack_alert_warns(outcome) == IF outcome = "raised" THEN 1 ELSE 0

\* ---- monitor.py main: what the process does with an exception of the run ----
\* variants: the exception is swallowed and the process ends in success; the
\* exception is swallowed and the run is started again
main_except_swallows == "exit_ok"
main_except_loops == "main"
main_except == "exit_fail"

\* ---- Streamlit viewer (app.py main) ----
MaxAddr == 2      \* distinct mail addresses typed into the subscribe form
Sessions == {"s1", "s2"}

\* What is typed into the form: addr 0 is an input that is empty or has no "@";
\* upper: written with capitals; pad: with blanks around it.
Inputs == [addr : 0..MaxAddr, upper : BOOLEAN, pad : BOOLEAN]
strip(e) == [e EXCEPT !.pad = FALSE]
lower(e) == [e EXCEPT !.upper = FALSE]
\* not sub_email or "@" not in sub_email
invalid_email(e) == e.addr = 0
\* variant: the addresses are compared as typed, capitals included
normalized_nolower(e) == strip(e)
\* .strip().lower(), applied to the input and to every stored email
normalized(e) == lower(strip(e))
\* any(normalized(s["email"]) == normalized for s in subscribers)
already(subscribers, e) ==
    \E i \in 1..Len(subscribers) : normalized(subscribers[i]) = normalized(e)

\* The subscribers file: absent, unparsable, or a JSON list of entries (an
\* entry is named by its stored email).
NoSubscribersFile == [kind |-> "absent", list |-> <<>>]
load_subscribers(file) == IF file.kind = "list" THEN file.list ELSE <<>>
\* outcome as for save_last_visit: every exception is swallowed
save_subscribers(file, subscribers, outcome) ==
    CASE outcome = "ok" -> [kind |-> "list", list |-> subscribers]
      [] outcome = "open_failed" -> file
      [] outcome = "write_failed" -> [kind |-> "corrupt", list |-> <<>>]

\* variant: the rows above the stored watermark are flagged new, none without one
viewer_new_rows_watermark(col, file) ==
    IF load_last_visit(file) = None THEN <<>> ELSE Greater(col, load_last_visit(file))
\* The table shows date, target, acquirer, title, link and transaction number:
\* no row is flagged new, and the state file is not looked at.
viewer_new_rows(col, file) == <<>>

NoView == [msg |-> "none", df |-> <<>>, flagged |-> <<>>]
IdleSession == [pc |-> "idle", subscribers |-> <<>>, stale |-> FALSE,
                notice |-> "none", view |-> NoView]

VARIABLES stateFile, object_dtype, upstream, upstreamChanged, pc, procs, runs,
          last_alert_created, fetched, df, latest_created, new_items, email,
          slack, slack_payload, warnings, saved, exc, fileAtStart, prevRun,
          sameBatch, observedMax, writeLost, subscribersFile, sess

vars == <<stateFile, object_dtype, upstream, upstreamChanged, pc, procs, runs,
          last_alert_created, fetched, df, latest_created, new_items, email,
          slack, slack_payload, warnings, saved, exc, fileAtStart, prevRun,
          sameBatch, observedMax, writeLost, subscribersFile, sess>>

\* the file system and the upstream API: what outlives a process
world == <<stateFile, object_dtype, upstream, upstreamChanged>>
\* the locals of check_and_send_hsr_alerts and what the run did
locals == <<last_alert_created, fetched, df, latest_created, new_items>>
effects == <<email, slack, slack_payload, warnings, saved>>
history == <<fileAtStart, prevRun, sameBatch, observedMax, writeLost>>
\* the Streamlit viewer: the subscribers file and the browser sessions
viewer == <<subscribersFile, sess>>

NoSave == [called |-> FALSE, arg |-> None, outcome |-> "none"]
\* the previous invocation: did it fetch a batch and run to its end (return or
\* raise), and did its watermark write, if any, reach the file
NoPrev == [completed |-> FALSE, write |-> "none"]

Running == {"load", "fetch", "detect", "email", "slack", "save"}
Ended == {"exit_ok", "exit_fail", "crashed"}

Init ==
    /\ stateFile \in StateFiles
    /\ object_dtype \in BOOLEAN
    /\ upstream = <<>>
    /\ upstreamChanged = FALSE
    /\ pc = "idle"
    /\ procs = 0
    /\ runs = 0
    /\ last_alert_created = None
    /\ fetched = FALSE
    /\ df = <<>>
    /\ latest_created = None
    /\ new_items = <<>>
    /\ email = "none"
    /\ slack = "none"
    /\ slack_payload = NoPayload
    /\ warnings = 0
    /\ saved = NoSave
    /\ exc = "none"
    /\ fileAtStart = stateFile
    /\ prevRun = NoPrev
    /\ sameBatch = FALSE
    /\ observedMax = load_last_visit(stateFile)
    /\ writeLost = FALSE
    /\ subscribersFile = NoSubscribersFile
    /\ sess = [s \in Sessions |-> IdleSession]

\* The external scheduler (cron, CI) starts monitor.py: a fresh process. The
\* upstream feed is what it was at the previous invocation, or has changed.
Start ==
    /\ UNCHANGED viewer
    /\ pc \in {"idle"} \cup Ended
    /\ procs < MaxProcs
    /\ procs' = procs + 1
    /\ pc' = "main"
    /\ runs' = 0
    /\ prevRun' = [completed |-> (fetched /\ pc \in {"exit_ok", "exit_fail"}),
                    write |-> IF ~saved.called THEN "none"
                              ELSE IF saved.outcome = "ok" THEN "ok" ELSE "lost"]
    /\ last_alert_created' = None
    /\ fetched' = FALSE
    /\ df' = <<>>
    /\ latest_created' = None
    /\ new_items' = <<>>
    /\ email' = "none"
    /\ slack' = "none"
    /\ slack_payload' = NoPayload
    /\ warnings' = 0
    /\ saved' = NoSave
    /\ exc' = "none"
    /\ fileAtStart' = stateFile
    /\ sameBatch' = FALSE
    /\ \E b \in Batches :
          /\ upstream' = b
          /\ upstreamChanged' = (b # upstream)
    /\ UNCHANGED <<stateFile, object_dtype, observedMax, writeLost>>

\* monitor.py main: the one call of check_and_send_hsr_alerts.
MainCall ==
    /\ UNCHANGED viewer
    /\ pc = "main"
    /\ runs' = runs + 1
    /\ pc' = "load"
    /\ UNCHANGED <<world, procs, locals, effects, exc, history>>

\* last_alert_created = load_last_visit()
LoadLastVisit ==
    /\ UNCHANGED viewer
    /\ pc = "load"
    /\ last_alert_created' = load_last_visit(stateFile)
    /\ pc' = "fetch"
    /\ UNCHANGED <<world, procs, runs, fetched, df, latest_created, new_items,
                   effects, exc, history>>

\* fetch_hsr_notices returns the current batch
FetchOk ==
    /\ UNCHANGED viewer
    /\ pc = "fetch"
    /\ df' = upstream
    /\ fetched' = TRUE
    /\ sameBatch' = (prevRun.completed /\ ~upstreamChanged)
    /\ pc' = "detect"
    /\ UNCHANGED <<world, procs, runs, last_alert_created, latest_created, new_items,
                   effects, exc, fileAtStart, prevRun, observedMax, writeLost>>

\* requests.get or raise_for_status raises: the exception leaves the run and
\* monitor.py prints it and re-raises
FetchRaises ==
    /\ UNCHANGED viewer
    /\ pc = "fetch"
    /\ exc' = "fetch"
    /\ pc' = main_except
    /\ UNCHANGED <<world, procs, runs, locals, effects, history>>

\* variant: the watermark is persisted before the new items are looked at, so
\* also by a run that finds none
DetectReturn_Saves ==
    /\ UNCHANGED viewer
    /\ pc = "detect"
    /\ \/ NoRows(df) /\ UNCHANGED <<latest_created, new_items, stateFile>>
       \/ /\ ~NoRows(df)
          /\ ~MaxRaises(df, object_dtype)
          /\ latest_of(df) = None
          /\ UNCHANGED <<latest_created, new_items, stateFile>>
       \/ /\ ~NoRows(df)
          /\ ~MaxRaises(df, object_dtype)
          /\ latest_of(df) # None
          /\ select_new(df, last_alert_created) = <<>>
          /\ latest_created' = latest_of(df)
          /\ new_items' = <<>>
          /\ stateFile' = save_last_visit(stateFile, latest_of(df), "ok")
    /\ pc' = "exit_ok"
    /\ observedMax' = Max(observedMax, SeriesMax(df))
    /\ UNCHANGED <<object_dtype, upstream, upstreamChanged, procs, runs,
                   last_alert_created, fetched, df, effects, exc, fileAtStart,
                   prevRun, sameBatch, writeLost>>

\* if df.empty ...: return;  if not latest_created: return;  if new_items.empty: return
DetectReturn ==
    /\ UNCHANGED viewer
    /\ pc = "detect"
    /\ \/ NoRows(df) /\ UNCHANGED <<latest_created, new_items>>
       \/ /\ ~NoRows(df)
          /\ ~MaxRaises(df, object_dtype)
          /\ latest_of(df) = None
          /\ UNCHANGED <<latest_created, new_items>>
       \/ /\ ~NoRows(df)
          /\ ~MaxRaises(df, object_dtype)
          /\ latest_of(df) # None
          /\ select_new(df, last_alert_created) = <<>>
          /\ latest_created' = latest_of(df)
          /\ new_items' = <<>>
    /\ pc' = "exit_ok"
    /\ observedMax' = Max(observedMax, SeriesMax(df))
    /\ UNCHANGED <<world, procs, runs, last_alert_created, fetched, df, effects, exc,
                   fileAtStart, prevRun, sameBatch, writeLost>>

\* df["created"].max() raises: the exception leaves the run
DetectRaises ==
    /\ UNCHANGED viewer
    /\ pc = "detect"
    /\ ~NoRows(df)
    /\ MaxRaises(df, object_dtype)
    /\ exc' = "max"
    /\ pc' = main_except
    /\ UNCHANGED <<world, procs, runs, locals, effects, history>>

\* variant: the watermark is persisted as soon as it is computed, before the
\* alerts are sent
DetectNew_SavesFirst ==
    /\ UNCHANGED viewer
    /\ pc = "detect"
    /\ ~NoRows(df)
    /\ ~MaxRaises(df, object_dtype)
    /\ latest_of(df) # None
    /\ select_new(df, last_alert_created) # <<>>
    /\ latest_created' = latest_of(df)
    /\ new_items' = select_new(df, last_alert_created)
    /\ stateFile' = save_last_visit(stateFile, latest_of(df), "ok")
    /\ pc' = "email"
    /\ UNCHANGED <<object_dtype, upstream, upstreamChanged, procs, runs,
                   last_alert_created, fetched, df, effects, exc, history>>

\* there are new items: go on to render and dispatch
DetectNew ==
    /\ UNCHANGED viewer
    /\ pc = "detect"
    /\ ~NoRows(df)
    /\ ~MaxRaises(df, object_dtype)
    /\ latest_of(df) # None
    /\ select_new(df, last_alert_created) # <<>>
    /\ latest_created' = latest_of(df)
    /\ new_items' = select_new(df, last_alert_created)
    /\ pc' = "email"
    /\ UNCHANGED <<world, procs, runs, last_alert_created, fetched, df, effects, exc,
                   history>>

\* render_hsr_email_html(new_items); send_hsr_email(subject, html_body)
SendHsrEmail ==
    /\ UNCHANGED viewer
    /\ pc = "email"
    /\ \E outcome \in EmailOutcomes :
          /\ email' = outcome
          /\ warnings' = warnings + send_hsr_email_warns(outcome)
    /\ pc' = "slack"
    /\ UNCHANGED <<world, procs, runs, locals, slack, slack_payload, saved, exc, history>>

\* slack_payload = render_slack_payload(new_items); send_slack_alert(slack_payload)
SendSlackAlert ==
    /\ UNCHANGED viewer
    /\ pc = "slack"
    /\ slack_payload' = render_slack_payload(new_items)
    /\ \E outcome \in SlackOutcomes :
          /\ slack' = outcome
          /\ warnings' = warnings + send_slack_alert_warns(outcome)
    /\ pc' = "save"
    /\ UNCHANGED <<world, procs, runs, locals, email, saved, exc, history>>

\* save_last_visit(latest_created), then the run returns
SaveLastVisit ==
    /\ UNCHANGED viewer
    /\ pc = "save"
    /\ \E outcome \in WriteOutcomes :
          /\ stateFile' = save_last_visit(stateFile, latest_created, outcome)
          /\ saved' = [called |-> TRUE, arg |-> latest_created, outcome |-> outcome]
          /\ writeLost' = (writeLost \/ outcome # "ok")
    /\ pc' = "exit_ok"
    /\ observedMax' = Max(observedMax, SeriesMax(df))
    /\ UNCHANGED <<object_dtype, upstream, upstreamChanged, procs, runs, locals,
                   email, slack, slack_payload, warnings, exc, fileAtStart, prevRun,
                   sameBatch>>

\* The process is killed while the run is under way. A kill inside
\* save_last_visit, after open(.., "w"), leaves the file truncated.
Crash ==
    /\ UNCHANGED viewer
    /\ pc \in Running
    /\ pc' = "crashed"
    /\ \/ UNCHANGED <<stateFile, writeLost>>
       \/ /\ pc = "save"
          /\ stateFile' = save_last_visit(stateFile, latest_created, "write_failed")
          /\ writeLost' = TRUE
    /\ UNCHANGED <<object_dtype, upstream, upstreamChanged, procs, runs, locals,
                   effects, exc, fileAtStart, prevRun, sameBatch, observedMax>>

Next ==
    \/ Start
    \/ MainCall
    \/ LoadLastVisit
    \/ FetchOk
    \/ FetchRaises
    \/ DetectReturn
    \/ DetectRaises
    \/ DetectNew
    \/ SendHsrEmail
    \/ SendSlackAlert
    \/ SaveLastVisit
    \/ Crash

Spec == Init /\ [][Next]_vars

TypeOK ==
    /\ stateFile \in StateFiles
    /\ pc \in {"idle", "main"} \cup Running \cup Ended
    /\ df \in Batches
    /\ runs \in 0..1

(***************************************************************************)
(* Properties                                                              *)
(***************************************************************************)
Range(seq) == {seq[i] : i \in 1..Len(seq)}
Increasing(seq) == \A i, j \in 1..Len(seq) : i < j => seq[i] < seq[j]
\* the rows of a batch whose created is strictly greater than w
NewerRows(col, w) == {i \in 1..Len(col) : col[i] # None /\ col[i] > w}
\* the maximum created over the rows whose created is defined, None if there is none
Defined(col) == {col[i] : i \in {j \in 1..Len(col) : col[j] # None}}
MaxDefined(col) ==
    IF Defined(col) = {} THEN None
    ELSE CHOOSE m \in Defined(col) : \A c \in Defined(col) : c <= m
\* the run is over: it returned or an exception left it
RunOver == pc \in {"exit_ok", "exit_fail"}
\* the run is past change detection
PastDetect == pc \in {"email", "slack", "save", "exit_ok", "exit_fail"}

\* C1: for every non-empty fetched batch and every defined stored watermark w,
\* the run selects as new items exactly the rows whose created is strictly
\* greater than w, and the candidate next watermark is the maximum created over
\* the rows whose created is defined.
C1_NewItemsExact ==
    (PastDetect /\ fetched /\ df # <<>> /\ last_alert_created # None) =>
        /\ Range(new_items) = NewerRows(df, last_alert_created)
        /\ Increasing(new_items)
        /\ latest_created = MaxDefined(df)

\* C2 as stated: a run that fetches the batch the previous run fetched
\* dispatches nothing and leaves the stored watermark as it found it.
C2_Idempotent ==
    sameBatch => /\ email \notin {"sent", "failed"}
                 /\ slack \notin {"posted", "raised", "http_error"}
                 /\ stateFile = fileAtStart

\* C2 amended: a run that fetches the batch the previous run fetched, where the
\* previous run's watermark write (if it made one) reached the file, dispatches
\* nothing and leaves the stored watermark as it found it.
C2_IdempotentIfPersisted ==
    (sameBatch /\ prevRun.write # "lost") =>
        (email = "none" /\ slack = "none" /\ stateFile = fileAtStart)

\* the second of two runs over the same batch is over, the first one having
\* alerted and persisted the watermark
C2_Witness ==
    /\ sameBatch
    /\ prevRun.write = "ok"
    /\ pc = "exit_ok"
    /\ df # <<>>
    /\ latest_created = last_alert_created
    /\ latest_created # None

\* C3: in a run with new items where exactly one channel fails to deliver and
\* the other succeeds, both channels were attempted, the run went on to call
\* save_last_visit with the batch maximum, and exactly one warning is recorded.
OneChannelFailed ==
    \/ email = "failed" /\ slack = "posted"
    \/ email = "sent" /\ slack \in {"raised", "http_error"}
C3_DispatchIndependence ==
    (pc = "exit_ok" /\ new_items # <<>> /\ OneChannelFailed) =>
        /\ saved.called
        /\ saved.arg = MaxDefined(df)
        /\ warnings = 1

\* C4: first run (no stored watermark) over a batch with at least one defined
\* created: every row is new and handed to both channels, and save_last_visit
\* is called with the batch maximum.
C4_FirstRunAllNew ==
    (RunOver /\ fetched /\ last_alert_created = None /\ Defined(df) # {}) =>
        /\ new_items = [i \in 1..Len(df) |-> i]
        /\ email # "none"
        /\ slack # "none"
        /\ slack_payload = render_slack_payload(new_items)
        /\ saved.called
        /\ saved.arg = MaxDefined(df)

\* C5: a run whose fetch raised, whose batch is empty, whose batch has no usable
\* created, or that found no new item leaves the state file as it found it and
\* calls neither channel; the state file differs from what the run found only
\* in a run that fetched a batch and found new items.
C5_NoEffectWithoutNewItems ==
    /\ (RunOver /\ (exc = "fetch" \/ (fetched /\ (df = <<>> \/ IsNaAll(df) \/ new_items = <<>>)))) =>
          (stateFile = fileAtStart /\ email = "none" /\ slack = "none" /\ ~saved.called)
    /\ (stateFile # fileAtStart \/ saved.called) => (fetched /\ new_items # <<>>)

\* a run found a usable batch and a defined watermark, but nothing newer
C5_Witness ==
    /\ pc = "exit_ok"
    /\ fetched
    /\ ~IsNaAll(df)
    /\ last_alert_created # None
    /\ new_items = <<>>
    /\ stateFile = fileAtStart

\* C6: as long as a run has not called both channels, and after a kill or a
\* swallowed write failure, every row the run selected is still new against
\* the stored watermark (no watermark, or created above it): the next run
\* selects it again, so the fault re-delivers at most and loses nothing.
IsNewFor(c, w) == w = None \/ (c # None /\ c > w)
NotYetPersisted ==
    \/ email = "none"
    \/ slack = "none"
    \/ pc = "crashed"
    \/ (saved.called /\ saved.outcome # "ok")
C6_NoLossBeforePersist ==
    NotYetPersisted =>
        \A k \in 1..Len(new_items) :
            IsNewFor(df[new_items[k]], load_last_visit(stateFile))

\* the process was killed after both channels were called and before the
\* watermark was persisted, in a run that had a stored watermark
C6_Witness ==
    /\ pc = "crashed"
    /\ new_items # <<>>
    /\ email \in {"sent", "failed"}
    /\ slack # "none"
    /\ last_alert_created # None
    /\ load_last_visit(stateFile) = last_alert_created

\* C7 as stated: between runs the stored watermark, when present, is the
\* maximum created observed over the batches of the earlier successful runs;
\* it is never cleared or lowered by a run; save_last_visit with an empty value
\* changes nothing.
BetweenRuns == pc \in {"idle", "exit_ok", "exit_fail"}
SaveEmptyIsNoOp ==
    \A f \in StateFiles : \A o \in WriteOutcomes : save_last_visit(f, None, o) = f
C7_WatermarkIsMaxObserved ==
    /\ (BetweenRuns /\ load_last_visit(stateFile) # None) =>
          load_last_visit(stateFile) = observedMax
    /\ BetweenRuns => load_last_visit(stateFile) >= load_last_visit(fileAtStart)
    /\ SaveEmptyIsNoOp

\* C7 amended: the stored watermark, when present, never exceeds the maximum
\* created observed over the batches of the earlier successful runs, and equals
\* it as long as no watermark write failed or was interrupted; no step lowers
\* or clears it except a write that fails (or is killed) after the file was
\* opened for writing, which leaves it cleared; save_last_visit with an empty
\* value changes nothing.
C7_StateOK ==
    /\ (BetweenRuns /\ load_last_visit(stateFile) # None) =>
          /\ load_last_visit(stateFile) <= observedMax
          /\ ~writeLost => load_last_visit(stateFile) = observedMax
    /\ SaveEmptyIsNoOp
C7_StepOK ==
    (load_last_visit(stateFile') < load_last_visit(stateFile)) =>
        (pc = "save" /\ stateFile'.kind = "corrupt" /\ writeLost')
C7_WatermarkMonotone == []C7_StateOK /\ [][C7_StepOK]_vars

\* a second run raised a present watermark to the larger maximum of its batch
C7_Witness ==
    /\ pc = "exit_ok"
    /\ procs = 2
    /\ saved.called
    /\ saved.outcome = "ok"
    /\ last_alert_created # None
    /\ load_last_visit(stateFile) > last_alert_created
    /\ load_last_visit(stateFile) = observedMax

\* C8: the one-shot process executes the run exactly once; an exception that
\* leaves the run (a fetch failure in particular) ends the process in failure,
\* and only that does; a delivery or persistence failure is absorbed and the
\* process ends in success.
FaultAbsorbed ==
    \/ email = "failed"
    \/ slack \in {"raised", "http_error"}
    \/ (saved.called /\ saved.outcome # "ok")
C8_OneShotExit ==
    /\ runs <= 1
    /\ RunOver => runs = 1
    /\ exc # "none" => pc = "exit_fail"
    /\ pc = "exit_fail" => exc # "none"
    /\ (RunOver /\ FaultAbsorbed) => (pc = "exit_ok" /\ exc = "none")

\* the fetch raised and the process ended in failure after its single run
C8_Witness == pc = "exit_fail" /\ exc = "fetch" /\ runs = 1 /\ ~fetched

\* C10 as stated: a run, also one that raised, never ends the process (the
\* orchestrator waits and runs again).
C10_LoopNeverExits == pc \notin {"exit_ok", "exit_fail"}

\* C10 amended: there is no loop mode. A process makes a single run; once the
\* run has returned or raised the process has exited (an exception is printed
\* and re-raised, not absorbed), and another run happens only in a new process
\* started by the external scheduler.
C10_StepOK ==
    /\ runs' > runs => (pc = "main" /\ runs = 0 /\ runs' = 1)
    /\ RunOver => (pc' = pc \/ (pc' = "main" /\ procs' = procs + 1 /\ runs' = 0))
C10_OneRunPerProcess == [][C10_StepOK]_vars

\* a run raised, its process exited, and that was not the first process
C10_Witness == pc = "exit_fail" /\ exc # "none" /\ runs = 1 /\ procs = 2

(***************************************************************************)
(* The Slack renderer on its own: new_items of every length up to MaxNew    *)
(***************************************************************************)
SlackBlockCeiling == 50

InitRender ==
    /\ stateFile = [kind |-> "absent", last_created |-> None]
    /\ object_dtype = FALSE
    /\ upstream = <<>>
    /\ upstreamChanged = FALSE
    /\ pc = "slack"
    /\ procs = 1
    /\ runs = 1
    /\ last_alert_created = None
    /\ fetched = TRUE
    /\ df = <<>>
    /\ latest_created = None
    /\ \E n \in 0..MaxNew : new_items = [i \in 1..n |-> i]
    /\ email = "none"
    /\ slack = "none"
    /\ slack_payload = NoPayload
    /\ warnings = 0
    /\ saved = NoSave
    /\ exc = "none"
    /\ fileAtStart = stateFile
    /\ prevRun = NoPrev
    /\ sameBatch = FALSE
    /\ observedMax = None
    /\ writeLost = FALSE
    /\ subscribersFile = NoSubscribersFile
    /\ sess = [s \in Sessions |-> IdleSession]

RenderSlack ==
    /\ UNCHANGED viewer
    /\ pc = "slack"
    /\ slack_payload' = render_slack_payload(new_items)
    /\ pc' = "rendered"
    /\ UNCHANGED <<world, procs, runs, locals, email, slack, warnings, saved, exc, history>>

NextRender == RenderSlack

SpecRender == InitRender /\ [][NextRender]_vars

Min(a, b) == IF a <= b THEN a ELSE b

\* C9: for n new items the payload has the 3 fixed blocks (header with the
\* count, intro, divider), then min(n, 45) item blocks in batch order, then one
\* summary block exactly when n > 45, stating n - 45; never more than 50 blocks.
C9_BlockCap ==
    pc = "rendered" =>
        LET n == Len(new_items)
            b == slack_payload.blocks
        IN /\ Len(b) = 3 + Min(n, 45) + (IF n > 45 THEN 1 ELSE 0)
           /\ b[1].type = "header" /\ b[1].n = n
           /\ b[2].type = "intro"
           /\ b[3].type = "divider"
           /\ \A i \in 1..Min(n, 45) : b[3 + i].type = "section" /\ b[3 + i].row = new_items[i]
           /\ n > 45 => (b[Len(b)].type = "context" /\ b[Len(b)].n = n - 45)
           /\ \A i \in 1..Len(b) : b[i].type = "context" => (n > 45 /\ i = Len(b))
           /\ Len(b) <= SlackBlockCeiling

\* 50 new items were rendered: 45 item blocks and a summary of 5 more
C9_Witness ==
    /\ pc = "rendered"
    /\ Len(new_items) = 50
    /\ Len(slack_payload.blocks) = 49
    /\ slack_payload.blocks[49].n = 5

MonitorIdle ==
    /\ object_dtype = FALSE
    /\ upstreamChanged = FALSE
    /\ pc = "idle"
    /\ procs = 0
    /\ runs = 0
    /\ last_alert_created = None
    /\ fetched = FALSE
    /\ df = <<>>
    /\ latest_created = None
    /\ new_items = <<>>
    /\ email = "none"
    /\ slack = "none"
    /\ slack_payload = NoPayload
    /\ warnings = 0
    /\ saved = NoSave
    /\ exc = "none"
    /\ prevRun = NoPrev
    /\ sameBatch = FALSE
    /\ writeLost = FALSE

monitor == <<world, pc, procs, runs, locals, effects, exc, history>>

\* The page is opened, or a widget other than the Subscribe button is used:
\* the script runs with submit_sub false.
ViewerRun(s) ==
    /\ sess[s].pc \in {"idle", "shown"}
    /\ sess' = [sess EXCEPT ![s] = [IdleSession EXCEPT !.pc = "fetch"]]
    /\ UNCHANGED <<monitor, subscribersFile>>

\* Subscribe pressed with an empty input or one without "@": st.warning
SubmitInvalid(s) ==
    /\ sess[s].pc \in {"idle", "shown"}
    /\ \E e \in Inputs :
          /\ invalid_email(e)
          /\ sess' = [sess EXCEPT ![s] = [IdleSession EXCEPT !.pc = "fetch",
                                                             !.notice = "warning"]]
    /\ UNCHANGED <<monitor, subscribersFile>>

\* Subscribe pressed with a valid input: the list is loaded and the input
\* looked up; if it is there st.info, else it is appended to the loaded list.
SubmitLoad(s) ==
    /\ sess[s].pc \in {"idle", "shown"}
    /\ \E e \in Inputs :
          /\ ~invalid_email(e)
          /\ LET subscribers == load_subscribers(subscribersFile) IN
             IF already(subscribers, e)
             THEN sess' = [sess EXCEPT ![s] = [IdleSession EXCEPT
                               !.pc = "fetch", !.notice = "info"]]
             ELSE sess' = [sess EXCEPT ![s] = [IdleSession EXCEPT
                               !.pc = "save",
                               !.subscribers = Append(subscribers, strip(e))]]
    /\ UNCHANGED <<monitor, subscribersFile>>

\* save_subscribers(subscribers) and st.success; the list is not used again.
\* A session that loaded before this write and has not saved yet now holds a
\* stale list.
SubmitSave(s) ==
    /\ sess[s].pc = "save"
    /\ \E outcome \in WriteOutcomes :
          subscribersFile' =
              save_subscribers(subscribersFile, sess[s].subscribers, outcome)
    /\ sess' = [t \in Sessions |->
                  IF t = s
                  THEN [sess[s] EXCEPT !.pc = "fetch", !.notice = "success",
                                       !.subscribers = <<>>]
                  ELSE IF sess[t].pc = "save" /\ subscribersFile' # subscribersFile
                       THEN [sess[t] EXCEPT !.stale = TRUE]
                       ELSE sess[t]]
    /\ UNCHANGED monitor

\* fetch_hsr_notices raises: st.error, nothing is shown
ViewerFetchRaises(s) ==
    /\ sess[s].pc = "fetch"
    /\ sess' = [sess EXCEPT ![s].pc = "shown", ![s].view.msg = "error"]
    /\ UNCHANGED <<monitor, subscribersFile>>

\* fetch_hsr_notices returns; an empty frame gives st.info, else the table
ViewerRender(s) ==
    /\ sess[s].pc = "fetch"
    /\ sess' = [sess EXCEPT ![s].pc = "shown",
                            ![s].view =
                               IF Empty(upstream)
                               THEN [NoView EXCEPT !.msg = "empty"]
                               ELSE [msg |-> "table", df |-> upstream,
                                     flagged |-> viewer_new_rows(upstream, stateFile)]]
    /\ UNCHANGED <<monitor, subscribersFile>>

\* Browsing only: any state file, any upstream batch, nobody subscribes
InitViewer ==
    /\ stateFile \in StateFiles
    /\ upstream \in Batches
    /\ fileAtStart = stateFile
    /\ observedMax = load_last_visit(stateFile)
    /\ MonitorIdle
    /\ subscribersFile = NoSubscribersFile
    /\ sess = [s \in Sessions |-> IdleSession]

NextViewer ==
    \E s \in Sessions :
        \/ ViewerRun(s)
        \/ ViewerFetchRaises(s)
        \/ ViewerRender(s)

SpecViewer == InitViewer /\ [][NextViewer]_vars

\* C11 as stated: what the viewer flags as new is decided by the stored
\* watermark: nothing when none is stored, the newer rows when one is.
C11_ViewerUsesWatermark ==
    \A s \in Sessions :
        sess[s].view.msg = "table" =>
            Range(sess[s].view.flagged) =
                IF load_last_visit(stateFile) = None
                THEN {}
                ELSE NewerRows(sess[s].view.df, load_last_visit(stateFile))

\* C11 amended: the viewer flags no row as new in any view, with or without
\* a stored watermark, and it leaves the state file as it found it.
C11_ViewerFlagsNothing ==
    /\ \A s \in Sessions : sess[s].view.flagged = <<>>
    /\ stateFile = fileAtStart

\* a table is shown that holds a row newer than the stored watermark
C11_Witness ==
    \E s \in Sessions :
        /\ sess[s].pc = "shown"
        /\ sess[s].view.msg = "table"
        /\ load_last_visit(stateFile) # None
        /\ NewerRows(sess[s].view.df, load_last_visit(stateFile)) # {}
        /\ sess[s].view.flagged = <<>>

\* ---- The subscribe form, used from concurrent sessions ----

\* Nothing to show and no state file; the subscribers file is absent,
\* unparsable, or holds at most one subscriber.
InitSubscribers ==
    /\ stateFile = [kind |-> "absent", last_created |-> None]
    /\ upstream = <<>>
    /\ fileAtStart = stateFile
    /\ observedMax = None
    /\ MonitorIdle
    /\ \/ subscribersFile \in {NoSubscribersFile, [kind |-> "corrupt", list |-> <<>>],
                               [kind |-> "list", list |-> <<>>]}
       \/ \E e \in Inputs :
             /\ ~invalid_email(e)
             /\ subscribersFile = [kind |-> "list", list |-> <<strip(e)>>]
    /\ sess = [s \in Sessions |-> IdleSession]

NextSubscribers ==
    \E s \in Sessions :
        \/ ViewerRun(s)
        \/ SubmitInvalid(s)
        \/ SubmitLoad(s)
        \/ SubmitSave(s)
        \/ ViewerFetchRaises(s)
        \/ ViewerRender(s)

SpecSubscribers == InitSubscribers /\ [][NextSubscribers]_vars

\* no two stored entries have emails that are equal after trimming and lower-casing
NoDuplicates ==
    \A i, j \in 1..Len(load_subscribers(subscribersFile)) :
        i # j => lower(strip(load_subscribers(subscribersFile)[i]))
                    # lower(strip(load_subscribers(subscribersFile)[j]))

\* the stored subscribers that the step drops
Removed ==
    Range(load_subscribers(subscribersFile)) \ Range(load_subscribers(subscribersFile'))

\* the step is a save by a session whose list was loaded before another write
StaleSave ==
    \E s \in Sessions :
        /\ sess[s].pc = "save"
        /\ sess'[s].pc = "fetch"
        /\ sess[s].stale

\* C13 as stated: under any interleaving of the sessions' submissions the
\* stored list has no duplicates and no stored subscriber is ever removed
\* (read for the steps that leave a list in the file: a file left unparsable
\* by a failed write is not held against the statement).
C13_UniqueAndAppendOnly ==
    []NoDuplicates /\ [][subscribersFile'.kind = "list" => Removed = {}]_vars

\* C13 amended: the stored list never has duplicates; a stored subscriber is
\* removed only by a save of a list loaded before another session's write, or
\* by a write that fails after the file was truncated.
C13_UniqueAndAppendOnlyIfSerial ==
    []NoDuplicates
        /\ [][Removed # {} => (StaleSave \/ subscribersFile'.kind = "corrupt")]_vars

\* a session has saved a list it loaded before another session's write, and
\* the file holds a list of two subscribers
C13_Witness ==
    \E s \in Sessions :
        /\ sess[s].pc = "fetch"
        /\ sess[s].notice = "success"
        /\ sess[s].stale
        /\ subscribersFile.kind = "list"
        /\ Len(subscribersFile.list) = 2

====
